---- MODULE Spec2Model ----
(***************************************************************************)
(* Model of the voice session hook useVoice (apps/web/src/hooks/useVoice): *)
(* the socket it owns, the capture path (startRecording, stopRecording,    *)
(* onaudioprocess) and the playback path (audio queue, processAudioQueue,  *)
(* playAudio).  One state of the model is the session between two tasks of *)
(* the browser's event loop: an action is one task together with every     *)
(* promise continuation it runs before the loop takes the next task.       *)
(***************************************************************************)
EXTENDS Integers, Sequences, FiniteSets, TLC

\* ------------------------------------------------------------------ bounds
\* Inputs of one run: a startRecording() call counts for two (the call and
\* the answer to the microphone prompt), a capture block, an inbound audio
\* chunk and a direct connect() call for one each.
MaxInputs == 5

\* ------------------------------------------------------- program constants
Int16Scale == 32767
PlaybackRate == 24000
CaptureRate == 16000
VolumeGain == 5

\* Fixed-point grid of the float samples: a sample k stands for k / SampleDen.
SampleDen == 2
\* Volume is kept in units of 1 / VolumeDen.
VolumeDen == 100

NoError == "null"
ConnectionErrorMsg == "Connection error"
MicErrorMsg == "Could not access microphone"

\* ------------------------------------------------------------ bytes, base64
\* A base64 text is a sequence of symbols: 0..63 the alphabet, Pad the '='
\* sign, Junk a character outside the alphabet.
Pad == 64
Junk == 65

Min(a, b) == IF a < b THEN a ELSE b
Max(a, b) == IF a > b THEN a ELSE b

RECURSIVE btoa(_)
btoa(bytes) ==
    IF bytes = <<>> THEN <<>>
    ELSE IF Len(bytes) = 1 THEN
        << bytes[1] \div 4, (bytes[1] % 4) * 16, Pad, Pad >>
    ELSE IF Len(bytes) = 2 THEN
        << bytes[1] \div 4, (bytes[1] % 4) * 16 + bytes[2] \div 16,
           (bytes[2] % 16) * 4, Pad >>
    ELSE
        << bytes[1] \div 4, (bytes[1] % 4) * 16 + bytes[2] \div 16,
           (bytes[2] % 16) * 4 + bytes[3] \div 64, bytes[3] % 64 >>
        \o btoa(SubSeq(bytes, 4, Len(bytes)))

\* atob strips at most two trailing '=' of a text whose length is a multiple
\* of four, then rejects a length of 1 mod 4 and any symbol outside the alphabet.
StripPad(s) ==
    IF Len(s) % 4 = 0 /\ Len(s) > 0 /\ s[Len(s)] = Pad
    THEN IF s[Len(s) - 1] = Pad THEN SubSeq(s, 1, Len(s) - 2)
         ELSE SubSeq(s, 1, Len(s) - 1)
    ELSE s

atobThrows(s) ==
    LET t == StripPad(s)
    IN  Len(t) % 4 = 1 \/ \E i \in 1..Len(t) : t[i] \notin 0..63

RECURSIVE DecodeSextets(_)
DecodeSextets(t) ==
    IF Len(t) < 2 THEN <<>>
    ELSE IF Len(t) = 2 THEN << t[1] * 4 + t[2] \div 16 >>
    ELSE IF Len(t) = 3 THEN
        << t[1] * 4 + t[2] \div 16, (t[2] % 16) * 16 + t[3] \div 4 >>
    ELSE
        << t[1] * 4 + t[2] \div 16, (t[2] % 16) * 16 + t[3] \div 4,
           (t[3] % 4) * 64 + t[4] >>
        \o DecodeSextets(SubSeq(t, 5, Len(t)))

atob(s) == DecodeSextets(StripPad(s))

\* ------------------------------------------------------------------- state
VARIABLES
    mounted,          \* the effect of useEffect is live (not yet cleaned up)
    sockets,          \* every WebSocket the session created, in creation order
    websocketRef,     \* index into sockets, 0 for null
    isListening, isProcessing, transcript, volume, error,
    isListeningRef,
    contexts,         \* every AudioContext created, in creation order
    audioContextRef,  \* index into contexts, 0 for null
    graphs,           \* every capture graph (stream, source, processor, gain)
    mediaRecorderRef, \* index into graphs, 0 for null
    micPending,       \* startRecording calls awaiting getUserMedia
    audioQueue, isPlaying,
    inflight,         \* chunks between dequeue and completion
    received,         \* history: audio_response payloads dispatched, in order
    played,           \* history: ids of the chunks whose source was started
    finished,         \* history: ids completed, failed or discarded
    nStarts, nBlocks, nConnects, \* history counters bounding the run
    dispatched,       \* history: the other inbound frames dispatched, in order
    stopLatch,        \* history: stopRecording() ran and no startRecording() since
    lastOp            \* history: the task that led to this state

sessionVars == <<isListening, isProcessing, transcript, volume, error>>
socketVars == <<sockets, websocketRef>>
captureVars == <<isListeningRef, graphs, mediaRecorderRef, micPending, nStarts,
                 nConnects>>
playbackVars == <<contexts, audioContextRef, audioQueue, isPlaying, inflight,
                  received, played, finished>>
vars == <<mounted, sockets, websocketRef, isListening, isProcessing, transcript,
          volume, error, isListeningRef, contexts, audioContextRef, graphs,
          mediaRecorderRef, micPending, audioQueue, isPlaying, inflight,
          received, played, finished, nStarts, nBlocks, nConnects, dispatched,
          stopLatch, lastOp>>

InputCost ==
    2 * nStarts + nBlocks + Len(received) + nConnects + 2 * Len(dispatched)

\* ------------------------------------------------------------------ inputs
Texts == {"hello", "world"}
CtxStates == {"running", "suspended"}

PayloadEven == btoa(<<1, 0>>)
PayloadOdd == btoa(<<7>>)
PayloadJunk == <<0, Junk, 0, 0>>
PayloadEmpty == <<>>
AudioPayloads == {PayloadEven, PayloadOdd, PayloadJunk, PayloadEmpty}

\* Capture blocks of one and of two samples, one sample outside [-1, 1].
CaptureBlocks == {<<SampleDen>>, <<1, 0 - SampleDen - 1>>, <<0>>}


LocalTimezone == "Asia/Colombo"

\* An inbound frame: whether JSON.parse accepts it, its type, whether it has
\* a payload, and the payload's text and is_final (Undefined when absent).
Undefined == "undefined"

Frame(parsed, type, payload, text, final) ==
    [parsed |-> parsed, type |-> type, payload |-> payload, text |-> text,
     final |-> final]

TranscriptFrame(text, final) == Frame(TRUE, "transcript", TRUE, text, final)

AgentFrame == Frame(TRUE, "agent_response", TRUE, Undefined, FALSE)

MalformedFrames ==
    { Frame(FALSE, Undefined, FALSE, Undefined, FALSE),
      Frame(TRUE, "ping", TRUE, Undefined, FALSE),
      Frame(TRUE, "transcript", FALSE, Undefined, FALSE),
      Frame(TRUE, "transcript", TRUE, Undefined, TRUE),
      Frame(TRUE, "audio_response", FALSE, Undefined, FALSE) }

\* ------------------------------------------------------ capture encoding
Clamp(k) == Max(0 - SampleDen, Min(SampleDen, k))

TruncDiv(p, d) == IF p >= 0 THEN p \div d ELSE 0 - ((0 - p) \div d)

\* Storing a number into an Int16Array: the fraction is dropped, then the
\* value wraps modulo 2^16.
ToInt16(p, d) == ((TruncDiv(p, d) + 32768) % 65536) - 32768

Quantize(k) == ToInt16(Clamp(k) * Int16Scale, SampleDen)

pcmData(block) == [i \in 1..Len(block) |-> Quantize(block[i])]

RECURSIVE Int8Bytes(_)
Int8Bytes(pcm) ==
    IF pcm = <<>> THEN <<>>
    ELSE << (pcm[1] % 65536) % 256 >> \o Int8Bytes(Tail(pcm))

RECURSIVE Int16Bytes(_)
Int16Bytes(pcm) ==
    IF pcm = <<>> THEN <<>>
    ELSE << (pcm[1] % 65536) % 256, (pcm[1] % 65536) \div 256 >>
         \o Int16Bytes(Tail(pcm))

EncodeBlock(block) == btoa(Int16Bytes(pcmData(block)))

RECURSIVE SumSq(_)
SumSq(block) == IF block = <<>> THEN 0 ELSE block[1] * block[1] + SumSq(Tail(block))

Isqrt(x) == CHOOSE r \in 0..VolumeDen : r * r <= x /\ x < (r + 1) * (r + 1)

\* Math.min(1, rms * 5) with rms = sqrt(sum / length), in units of 1/VolumeDen.
VolumeOf(block) ==
    LET s == SumSq(block)
        n == Len(block) * SampleDen * SampleDen
    IN  IF VolumeGain * VolumeGain * s >= n THEN VolumeDen
        ELSE Isqrt((VolumeDen * VolumeDen * VolumeGain * VolumeGain * s) \div n)

\* -------------------------------------------------------------- connection
NewSocket == [readyState |-> "CONNECTING", sent |-> <<>>]

ConfigMsg == [type |-> "config", timezone |-> LocalTimezone]

IsOpen(socks, ref) == ref # 0 /\ socks[ref].readyState = "OPEN"

ConnectNeverSkips(socks, ref) == FALSE

ConnectSkips(socks, ref) == IsOpen(socks, ref)

connectWebSocket(socks, ref) ==
    IF ConnectSkips(socks, ref)
    THEN [sockets |-> socks, websocketRef |-> ref]
    ELSE [sockets |-> Append(socks, NewSocket), websocketRef |-> Len(socks) + 1]

\* ---------------------------------------------------------------- playback
PB == [contexts |-> contexts, audioContextRef |-> audioContextRef,
       audioQueue |-> audioQueue, isPlaying |-> isPlaying,
       inflight |-> inflight, played |-> played, finished |-> finished]

SetPB(pb) ==
    /\ contexts' = pb.contexts
    /\ audioContextRef' = pb.audioContextRef
    /\ audioQueue' = pb.audioQueue
    /\ isPlaying' = pb.isPlaying
    /\ inflight' = pb.inflight
    /\ played' = pb.played
    /\ finished' = pb.finished

Entry(c, phase, ctx) == [id |-> c.id, payload |-> c.payload, phase |-> phase, ctx |-> ctx]

QueueGuardNoFlag(playing, queue) == Len(queue) = 0

QueueGuard(playing, queue) == playing \/ Len(queue) = 0

Truthy(payload) == payload # <<>>

playAudioCatchStops(pb, c) ==
    [pb |-> [pb EXCEPT !.isPlaying = FALSE, !.finished = @ \cup {c.id}],
     resolved |-> FALSE]

playAudioCatch(pb, c) ==
    [pb |-> [pb EXCEPT !.isPlaying = FALSE, !.finished = @ \cup {c.id}],
     resolved |-> TRUE]

\* From the Int16Array view to source.start(0).
playAudioTail(pb, c) ==
    LET bytes == atob(c.payload)
    IN  IF Len(bytes) % 2 # 0 \/ Len(bytes) \div 2 = 0
        THEN playAudioCatch(pb, c)
        ELSE [pb |-> [pb EXCEPT
                        !.inflight = @ \cup {Entry(c, "Playing", pb.audioContextRef)},
                        !.played = Append(@, c.id)],
              resolved |-> FALSE]

playAudio(pb, c, newState) ==
    IF atobThrows(c.payload) THEN playAudioCatch(pb, c)
    ELSE LET pb1 == IF pb.audioContextRef = 0
                    THEN [pb EXCEPT
                            !.contexts = Append(@, [state |-> newState, rate |-> PlaybackRate]),
                            !.audioContextRef = Len(pb.contexts) + 1]
                    ELSE pb
         IN  IF pb1.contexts[pb1.audioContextRef].state = "suspended"
             THEN [pb |-> [pb1 EXCEPT !.inflight =
                             @ \cup {Entry(c, "Decoding", pb1.audioContextRef)}],
                   resolved |-> FALSE]
             ELSE playAudioTail(pb1, c)

RECURSIVE processAudioQueue(_, _)
processAudioQueue(pb, newState) ==
    IF QueueGuard(pb.isPlaying, pb.audioQueue) THEN pb
    ELSE LET nextAudio == Head(pb.audioQueue)
             pb1 == [pb EXCEPT !.isPlaying = TRUE, !.audioQueue = Tail(@)]
         IN  IF Truthy(nextAudio.payload)
             THEN LET r == playAudio(pb1, nextAudio, newState)
                  IN  IF r.resolved THEN processAudioQueue(r.pb, newState) ELSE r.pb
             ELSE [pb1 EXCEPT !.isPlaying = FALSE, !.finished = @ \cup {nextAudio.id}]

\* -------------------------------------------------------------------- Init
Init ==
    /\ mounted = TRUE
    /\ sockets = <<NewSocket>>
    /\ websocketRef = 1
    /\ isListening = FALSE /\ isProcessing = FALSE
    /\ transcript = "" /\ volume = 0 /\ error = NoError
    /\ isListeningRef = FALSE
    /\ contexts = <<>> /\ audioContextRef = 0
    /\ graphs = <<>> /\ mediaRecorderRef = 0
    /\ micPending = 0
    /\ audioQueue = <<>> /\ isPlaying = FALSE /\ inflight = {}
    /\ received = <<>> /\ played = <<>> /\ finished = {}
    /\ nStarts = 0 /\ nBlocks = 0 /\ nConnects = 0
    /\ dispatched = <<>> /\ stopLatch = FALSE
    /\ lastOp = "Init"

\* ----------------------------------------------------------- socket events
onopenSendNothing(log) == log

onopenSend(log) == Append(log, ConfigMsg)

onerrorKeepsListening(err, listening) ==
    [error |-> ConnectionErrorMsg, isListening |-> listening]

onerror(err, listening) == [error |-> ConnectionErrorMsg, isListening |-> FALSE]

onclose(err, listening) == [error |-> err, isListening |-> listening]

SocketOpen(s) ==
    /\ sockets[s].readyState = "CONNECTING"
    /\ sockets' = [sockets EXCEPT ![s].readyState = "OPEN",
                                  ![s].sent = onopenSend(@)]
    /\ error' = NoError
    /\ lastOp' = "SocketOpen"
    /\ UNCHANGED <<dispatched, stopLatch>>
    /\ UNCHANGED <<mounted, websocketRef, isListening, isProcessing, transcript,
                   volume, nBlocks>>
    /\ UNCHANGED captureVars /\ UNCHANGED playbackVars

onmessageAnyTranscript(frame, tr, proc) ==
    IF frame.parsed /\ frame.type = "transcript" /\ frame.payload
    THEN [transcript |-> frame.text, isProcessing |-> TRUE]
    ELSE [transcript |-> tr,
          isProcessing |-> IF frame.parsed /\ frame.type = "agent_response"
                           THEN FALSE ELSE proc]

\* The session state after onmessage dispatched `frame`: JSON.parse or the
\* read of payload.text of a missing payload throws into the catch, which
\* only logs; an unrecognised type matches no branch.
onmessage(frame, tr, proc) ==
    IF ~frame.parsed
    THEN [transcript |-> tr, isProcessing |-> proc]
    ELSE IF frame.type = "transcript"
    THEN IF ~frame.payload
         THEN [transcript |-> tr, isProcessing |-> proc]
         ELSE [transcript |-> frame.text,
               isProcessing |-> IF frame.final THEN TRUE ELSE proc]
    ELSE IF frame.type = "agent_response"
    THEN [transcript |-> tr, isProcessing |-> FALSE]
    ELSE [transcript |-> tr, isProcessing |-> proc]

ReceiveTranscript(s, text, final) ==
    /\ sockets[s].readyState = "OPEN"
    /\ LET r == onmessage(TranscriptFrame(text, final), transcript, isProcessing)
       IN  transcript' = r.transcript /\ isProcessing' = r.isProcessing
    /\ lastOp' = "Transcript"
    /\ InputCost + 2 <= MaxInputs
    /\ dispatched' = Append(dispatched, TranscriptFrame(text, final))
    /\ UNCHANGED stopLatch
    /\ UNCHANGED <<mounted, isListening, volume, error, nBlocks>>
    /\ UNCHANGED socketVars /\ UNCHANGED captureVars /\ UNCHANGED playbackVars

ReceiveAgentResponse(s) ==
    /\ sockets[s].readyState = "OPEN"
    /\ LET r == onmessage(AgentFrame, transcript, isProcessing)
       IN  transcript' = r.transcript /\ isProcessing' = r.isProcessing
    /\ lastOp' = "AgentResponse"
    /\ InputCost + 2 <= MaxInputs
    /\ dispatched' = Append(dispatched, AgentFrame)
    /\ UNCHANGED stopLatch
    /\ UNCHANGED <<mounted, isListening, volume, error, nBlocks>>
    /\ UNCHANGED socketVars /\ UNCHANGED captureVars /\ UNCHANGED playbackVars

\* A frame that does not parse, has an unrecognised type, or lacks the fields
\* its type requires.  An audio_response without payload pushes undefined,
\* which is falsy as the empty string is, and drains the queue.
ReceiveMalformed(s, frame, newState) ==
    /\ sockets[s].readyState = "OPEN"
    /\ InputCost + (IF frame.type = "audio_response" THEN 3 ELSE 2) <= MaxInputs
    /\ LET r == onmessage(frame, transcript, isProcessing)
       IN  transcript' = r.transcript /\ isProcessing' = r.isProcessing
    /\ IF frame.parsed /\ frame.type = "audio_response" /\ ~frame.payload
       THEN /\ received' = Append(received, PayloadEmpty)
            /\ LET c == [id |-> Len(received) + 1, payload |-> PayloadEmpty]
                   pb == [PB EXCEPT !.audioQueue = Append(@, c)]
               IN  SetPB(processAudioQueue(pb, newState))
       ELSE UNCHANGED playbackVars
    /\ dispatched' = Append(dispatched, frame)
    /\ lastOp' = "Malformed"
    /\ UNCHANGED <<mounted, isListening, volume, error, nBlocks, stopLatch>>
    /\ UNCHANGED socketVars /\ UNCHANGED captureVars

ReceiveAudio(s, payload, newState) ==
    /\ sockets[s].readyState = "OPEN"
    /\ InputCost + 1 <= MaxInputs
    /\ received' = Append(received, payload)
    /\ LET c == [id |-> Len(received) + 1, payload |-> payload]
           pb == [PB EXCEPT !.audioQueue = Append(@, c)]
       IN  SetPB(processAudioQueue(pb, newState))
    /\ lastOp' = "AudioResponse"
    /\ UNCHANGED <<dispatched, stopLatch>>
    /\ UNCHANGED <<mounted, nBlocks>>
    /\ UNCHANGED sessionVars /\ UNCHANGED socketVars /\ UNCHANGED captureVars

oncloseReconnects(socks, ref) == connectWebSocket(socks, ref)

\* What onclose does to the sockets: it only logs.
oncloseSockets(socks, ref) == [sockets |-> socks, websocketRef |-> ref]

\* The connection failed: the socket is CLOSED when the error event fires,
\* and the close event follows in the same task.
SocketError(s) ==
    /\ sockets[s].readyState # "CLOSED"
    /\ LET r == onerror(error, isListening)
           c == onclose(r.error, r.isListening)
           k == oncloseSockets([sockets EXCEPT ![s].readyState = "CLOSED"],
                               websocketRef)
       IN  /\ error' = c.error /\ isListening' = c.isListening
           /\ sockets' = k.sockets /\ websocketRef' = k.websocketRef
    /\ lastOp' = "SocketError"
    /\ UNCHANGED <<dispatched, stopLatch>>
    /\ UNCHANGED <<mounted, isProcessing, transcript, volume, nBlocks>>
    /\ UNCHANGED captureVars /\ UNCHANGED playbackVars

\* A clean close (by the peer, or the end of a close() of the session).
SocketClose(s) ==
    /\ sockets[s].readyState \in {"OPEN", "CLOSING"}
    /\ LET c == onclose(error, isListening)
           k == oncloseSockets([sockets EXCEPT ![s].readyState = "CLOSED"],
                               websocketRef)
       IN  /\ error' = c.error /\ isListening' = c.isListening
           /\ sockets' = k.sockets /\ websocketRef' = k.websocketRef
    /\ lastOp' = "SocketClose"
    /\ UNCHANGED <<dispatched, stopLatch>>
    /\ UNCHANGED <<mounted, isProcessing, transcript, volume, nBlocks>>
    /\ UNCHANGED captureVars /\ UNCHANGED playbackVars

\* --------------------------------------------------------- playback events
ResumeResolved(e, newState) ==
    /\ e \in inflight /\ e.phase = "Decoding"
    /\ LET c == [id |-> e.id, payload |-> e.payload]
           rejected == contexts[e.ctx].state = "closed"
           pb0 == [PB EXCEPT !.inflight = @ \ {e},
                             !.contexts[e.ctx].state =
                                 IF rejected THEN "closed" ELSE "running"]
           r == IF rejected THEN playAudioCatch(pb0, c) ELSE playAudioTail(pb0, c)
       IN  SetPB(IF r.resolved THEN processAudioQueue(r.pb, newState) ELSE r.pb)
    /\ lastOp' = "ResumeResolved"
    /\ UNCHANGED <<dispatched, stopLatch>>
    /\ UNCHANGED <<mounted, received, nBlocks>>
    /\ UNCHANGED sessionVars /\ UNCHANGED socketVars /\ UNCHANGED captureVars

PlaybackEnded(e, newState) ==
    /\ e \in inflight /\ e.phase = "Playing"
    /\ contexts[e.ctx].state = "running"
    /\ LET pb0 == [PB EXCEPT !.inflight = @ \ {e}, !.isPlaying = FALSE,
                             !.finished = @ \cup {e.id}]
       IN  SetPB(processAudioQueue(pb0, newState))
    /\ lastOp' = "PlaybackEnded"
    /\ UNCHANGED <<dispatched, stopLatch>>
    /\ UNCHANGED <<mounted, received, nBlocks>>
    /\ UNCHANGED sessionVars /\ UNCHANGED socketVars /\ UNCHANGED captureVars


\* A direct call of connect() (connectWebSocket), as the mount effect makes.
ConnectCall ==
    /\ mounted
    /\ InputCost + 1 <= MaxInputs
    /\ nConnects' = nConnects + 1
    /\ LET r == connectWebSocket(sockets, websocketRef)
       IN  sockets' = r.sockets /\ websocketRef' = r.websocketRef
    /\ lastOp' = "Connect"
    /\ UNCHANGED <<dispatched, stopLatch>>
    /\ UNCHANGED <<mounted, isListeningRef, graphs, mediaRecorderRef, micPending,
                   nStarts, nBlocks>>
    /\ UNCHANGED sessionVars /\ UNCHANGED playbackVars

\* ----------------------------------------------------------------- capture
NeedsConnect(socks, ref) == ref = 0 \/ socks[ref].readyState # "OPEN"

\* startRecording up to its await of getUserMedia.
StartRecording ==
    /\ mounted
    /\ InputCost + 2 <= MaxInputs
    /\ nStarts' = nStarts + 1
    /\ error' = NoError
    /\ LET r == IF NeedsConnect(sockets, websocketRef)
                THEN connectWebSocket(sockets, websocketRef)
                ELSE [sockets |-> sockets, websocketRef |-> websocketRef]
       IN  sockets' = r.sockets /\ websocketRef' = r.websocketRef
    /\ micPending' = micPending + 1
    /\ lastOp' = "StartRecording"
    /\ stopLatch' = FALSE
    /\ UNCHANGED dispatched
    /\ UNCHANGED <<mounted, isListening, isProcessing, transcript, volume,
                   isListeningRef, graphs, mediaRecorderRef, nBlocks, nConnects>>
    /\ UNCHANGED playbackVars

\* getUserMedia resolved: the rest of startRecording, to its last statement.
MicGranted ==
    /\ micPending > 0
    /\ micPending' = micPending - 1
    /\ contexts' = Append(contexts, [state |-> "running", rate |-> CaptureRate])
    /\ audioContextRef' = Len(contexts) + 1
    /\ graphs' = Append(graphs, [ctx |-> Len(contexts) + 1, wired |-> TRUE,
                                 stopped |-> FALSE])
    /\ mediaRecorderRef' = Len(graphs) + 1
    /\ isListening' = TRUE
    /\ isListeningRef' = TRUE
    /\ lastOp' = "MicGranted"
    /\ UNCHANGED <<dispatched, stopLatch>>
    /\ UNCHANGED <<mounted, isProcessing, transcript, volume, error, nStarts,
                   nConnects, nBlocks, audioQueue, isPlaying, inflight, received, played,
                   finished>>
    /\ UNCHANGED socketVars

\* getUserMedia rejected: the catch of startRecording.
MicDenied ==
    /\ micPending > 0
    /\ micPending' = micPending - 1
    /\ error' = MicErrorMsg
    /\ lastOp' = "MicDenied"
    /\ UNCHANGED <<dispatched, stopLatch>>
    /\ UNCHANGED <<mounted, isListening, isProcessing, transcript, volume,
                   isListeningRef, graphs, mediaRecorderRef, nStarts, nConnects, nBlocks>>
    /\ UNCHANGED socketVars /\ UNCHANGED playbackVars

\* getUserMedia resolved and the AudioContext constructor threw: the stream
\* stays live, nothing is installed, the catch runs.
GraphFails ==
    /\ micPending > 0
    /\ micPending' = micPending - 1
    /\ graphs' = Append(graphs, [ctx |-> 0, wired |-> FALSE, stopped |-> FALSE])
    /\ error' = MicErrorMsg
    /\ lastOp' = "GraphFails"
    /\ UNCHANGED <<dispatched, stopLatch>>
    /\ UNCHANGED <<mounted, isListening, isProcessing, transcript, volume,
                   isListeningRef, mediaRecorderRef, nStarts, nConnects, nBlocks>>
    /\ UNCHANGED socketVars /\ UNCHANGED playbackVars

stopGraphNothing(gs, ref) == gs

\* mediaRecorderRef.current.stop(), when a cleanup handle is stored.
stopGraph(gs, ref) == IF ref # 0 THEN [gs EXCEPT ![ref].stopped = TRUE] ELSE gs

StopRecording ==
    /\ mounted
    /\ graphs' = stopGraph(graphs, mediaRecorderRef)
    /\ isListening' = FALSE
    /\ isListeningRef' = FALSE
    /\ volume' = 0
    /\ lastOp' = "StopRecording"
    /\ stopLatch' = TRUE
    /\ UNCHANGED dispatched
    /\ UNCHANGED <<mounted, isProcessing, transcript, error, mediaRecorderRef,
                   micPending, nStarts, nConnects, nBlocks>>
    /\ UNCHANGED socketVars /\ UNCHANGED playbackVars

Delivers(g) ==
    /\ graphs[g].wired /\ ~graphs[g].stopped
    /\ contexts[graphs[g].ctx].state = "running"

CallbackRuns(listeningRef) == listeningRef

SendGuardAnySocket(socks, ref) == ref # 0

SendGuard(socks, ref) == IsOpen(socks, ref)

AudioChunkMsg(block, n, listening) ==
    [type |-> "audio_chunk", payload |-> EncodeBlock(block),
     block |-> n, samples |-> Len(block), listening |-> listening,
     input |-> block]

\* processor.onaudioprocess of graph g for one block of samples.
CaptureBlock(g, block) ==
    /\ Delivers(g)
    /\ InputCost + 1 <= MaxInputs
    /\ nBlocks' = nBlocks + 1
    /\ IF CallbackRuns(isListeningRef)
       THEN /\ volume' = VolumeOf(block)
            /\ sockets' = IF SendGuard(sockets, websocketRef)
                          THEN [sockets EXCEPT ![websocketRef].sent =
                                  Append(@, AudioChunkMsg(block, nBlocks + 1, isListening))]
                          ELSE sockets
       ELSE UNCHANGED <<volume, sockets>>
    /\ lastOp' = "CaptureBlock"
    /\ UNCHANGED <<dispatched, stopLatch>>
    /\ UNCHANGED <<mounted, websocketRef, isListening, isProcessing, transcript, error>>
    /\ UNCHANGED captureVars /\ UNCHANGED playbackVars

\* ---------------------------------------------------------------- teardown
CloseSocket(sock) ==
    IF sock.readyState \in {"CONNECTING", "OPEN"}
    THEN [sock EXCEPT !.readyState = "CLOSING"] ELSE sock

\* The cleanup returned by useEffect.
Unmount ==
    /\ mounted
    /\ mounted' = FALSE
    /\ sockets' = IF websocketRef # 0
                  THEN [sockets EXCEPT ![websocketRef] = CloseSocket(@)]
                  ELSE sockets
    /\ contexts' = IF audioContextRef # 0
                   THEN [contexts EXCEPT ![audioContextRef].state = "closed"]
                   ELSE contexts
    /\ lastOp' = "Unmount"
    /\ UNCHANGED <<dispatched, stopLatch>>
    /\ UNCHANGED <<websocketRef, audioContextRef, audioQueue, isPlaying, inflight,
                   received, played, finished, nBlocks>>
    /\ UNCHANGED sessionVars /\ UNCHANGED captureVars

\* -------------------------------------------------------------------- Next
SocketIds == 1..Len(sockets)

ConnectionNext ==
    \/ \E s \in SocketIds : SocketOpen(s)
    \/ \E s \in SocketIds : SocketError(s)
    \/ \E s \in SocketIds : SocketClose(s)

DispatchNext ==
    \/ \E s \in SocketIds, t \in Texts, f \in BOOLEAN : ReceiveTranscript(s, t, f)
    \/ \E s \in SocketIds : ReceiveAgentResponse(s)
    \/ \E s \in SocketIds, f \in MalformedFrames, ns \in CtxStates :
           ReceiveMalformed(s, f, ns)

PlaybackNext ==
    \/ \E s \in SocketIds, p \in AudioPayloads, ns \in CtxStates : ReceiveAudio(s, p, ns)
    \/ \E e \in inflight, ns \in CtxStates : ResumeResolved(e, ns)
    \/ \E e \in inflight, ns \in CtxStates : PlaybackEnded(e, ns)

RecordingNext ==
    \/ StartRecording
    \/ MicGranted
    \/ StopRecording

CaptureNext ==
    \/ MicDenied
    \/ GraphFails
    \/ \E g \in 1..Len(graphs), b \in CaptureBlocks : CaptureBlock(g, b)

Next ==
    \/ ConnectionNext
    \/ DispatchNext
    \/ PlaybackNext
    \/ RecordingNext
    \/ CaptureNext
    \/ Unmount

\* The whole session.
Spec == Init /\ [][Next]_vars

\* The playback path: inbound audio, its playback events, and the operations
\* that replace or close the audio context it plays through.
NextPlayback ==
    \/ \E s \in SocketIds : SocketOpen(s)
    \/ PlaybackNext
    \/ RecordingNext
    \/ Unmount

SpecPlayback == Init /\ [][NextPlayback]_vars

\* The connection and the capture path: every operation but the dispatch of
\* inbound messages.
NextCapture ==
    \/ ConnectionNext
    \/ RecordingNext
    \/ CaptureNext
    \/ Unmount

SpecCapture == Init /\ [][NextCapture]_vars

\* The connection with connect() also called directly, in any state.
NextConnect ==
    \/ ConnectionNext
    \/ RecordingNext
    \/ ConnectCall

SpecConnect == Init /\ [][NextConnect]_vars

\* The events of a session that is recording: socket events, every inbound
\* frame, playback events and capture blocks.
NextEvents ==
    \/ ConnectionNext
    \/ DispatchNext
    \/ PlaybackNext
    \/ StartRecording
    \/ MicGranted
    \/ \E g \in 1..Len(graphs), b \in CaptureBlocks : CaptureBlock(g, b)

SpecEvents == Init /\ [][NextEvents]_vars

\* Recording started and stopped while frames arrive and chunks play.
NextStop ==
    \/ \E s \in SocketIds : SocketOpen(s)
    \/ DispatchNext
    \/ PlaybackNext
    \/ RecordingNext
    \/ MicDenied
    \/ \E g \in 1..Len(graphs), b \in CaptureBlocks : CaptureBlock(g, b)

SpecStop == Init /\ [][NextStop]_vars


\* ================================================================== claims
ReceivedIds == 1..Len(received)

Started == {played[i] : i \in 1..Len(played)}

\* A payload playAudio turns into a started source: non-empty, valid base64,
\* a whole, non-zero number of 16-bit samples.
Decodable(payload) ==
    /\ payload # <<>>
    /\ ~atobThrows(payload)
    /\ Len(atob(payload)) % 2 = 0
    /\ Len(atob(payload)) > 0

\* C1: at most one chunk is between its dequeue and its completion (decoding,
\* scheduled or playing) at any time, the playing flag is set while one is,
\* and a chunk is only in that state once every chunk received before it has
\* completed, failed to decode or been discarded.
C1_PlaybackMutex ==
    /\ Cardinality(inflight) <= 1
    /\ \A e \in inflight :
          /\ isPlaying
          /\ \A d \in 1..(e.id - 1) : d \in finished

\* A later chunk is playing after an earlier one completed, another chunk
\* waits behind it, and a startRecording() has replaced the audio context.
C1_Witness ==
    /\ \E e \in inflight : e.phase = "Playing" /\ e.id > 1 /\ (e.id - 1) \in Started
    /\ audioQueue # <<>>
    /\ Len(graphs) > 0

\* C2: once nothing is being decoded or played any more, the chunks that
\* started playing are exactly the decodable chunks received, in arrival
\* order, each once.
C2_PlayedAllInOrder ==
    (mounted /\ inflight = {}) =>
        played = SelectSeq([i \in ReceivedIds |-> i], LAMBDA i : Decodable(received[i]))

\* C3: once nothing is being decoded or played any more, every chunk that
\* was appended to the queue has been dequeued (played, or discarded on a
\* decode failure), whatever its payload.
C3_NoChunkLeftBehind ==
    (mounted /\ inflight = {}) => \A i \in ReceivedIds : i \in finished


AudioChunks == {<<s, i>> \in SocketIds \X (1..MaxInputs) :
                   i <= Len(sockets[s].sent) /\ sockets[s].sent[i].type = "audio_chunk"}

SentMsg(si) == sockets[si[1]].sent[si[2]]

SentFor(n) == {si \in AudioChunks : SentMsg(si).block = n}

\* C4: every audio_chunk message was sent by a capture callback that ran
\* while the observable listening flag was true.
C4_NoChunkWhileNotListening ==
    \A si \in AudioChunks : SentMsg(si).listening

\* What C5 says of every message sent: no block is sent twice, the chunks of
\* one socket are in capture order, and a payload decodes to two bytes per
\* sample of its block.
ChunksWellFormed ==
    /\ \A n \in 1..nBlocks : Cardinality(SentFor(n)) <= 1
    /\ \A si \in AudioChunks, sj \in AudioChunks :
          (si[1] = sj[1] /\ si[2] < sj[2]) => SentMsg(si).block < SentMsg(sj).block
    /\ \A si \in AudioChunks :
          /\ ~atobThrows(SentMsg(si).payload)
          /\ Len(atob(SentMsg(si).payload)) = 2 * SentMsg(si).samples

C6_ConfigOnceAndFirst ==
    \A s \in SocketIds :
        LET log == sockets[s].sent
        IN  /\ sockets[s].readyState = "OPEN" => log # <<>>
            /\ sockets[s].readyState = "CONNECTING" => log = <<>>
            /\ log # <<>> =>
                  /\ log[1] = ConfigMsg /\ log[1].timezone # ""
                  /\ \A i \in 2..Len(log) : log[i].type = "audio_chunk"

\* A socket created after the first one carries its config and then an audio chunk.
C6_Witness ==
    \E s \in SocketIds :
        /\ s > 1 /\ Len(sockets[s].sent) >= 2
        /\ sockets[s].sent[2].type = "audio_chunk"

coreVars == <<mounted, sockets, websocketRef, isListening, isProcessing, transcript,
              error, isListeningRef, contexts, audioContextRef, graphs,
              mediaRecorderRef, micPending, audioQueue, isPlaying, inflight>>

\* C7: a connect() call made while the referenced socket is open creates no
\* socket, sends nothing and changes no state of the session.
C7_ConnectIdempotent ==
    [][(lastOp' = "Connect" /\ IsOpen(sockets, websocketRef)) =>
          UNCHANGED <<coreVars, volume>>]_vars

\* connect() was called a second time on an open connection.
C7_Witness ==
    lastOp = "Connect" /\ IsOpen(sockets, websocketRef) /\ nConnects >= 2

\* C8 as stated: a capture block that is ready while the socket is not open
\* changes nothing: no message, no error, listening and all other state kept.
C8_Original ==
    [][(lastOp' = "CaptureBlock" /\ ~IsOpen(sockets, websocketRef)) =>
          UNCHANGED <<coreVars, volume>>]_vars

\* C8 as amended: a capture block that is ready while the socket is not open
\* is dropped: no message is sent on any socket, error and listening and all
\* other state are kept, except volume, which the callback still updates.
C8_DroppedWhenNotOpen ==
    [][(lastOp' = "CaptureBlock" /\ ~IsOpen(sockets, websocketRef)) =>
          UNCHANGED coreVars]_vars

\* A callback ran with the capture flag set and no open socket.
C8_Witness ==
    /\ lastOp = "CaptureBlock" /\ isListeningRef
    /\ ~IsOpen(sockets, websocketRef)
    /\ volume > 0

\* C9: after a socket error event the session error is the connection-error
\* message and listening is false.
C9_ErrorForcesListeningOff ==
    lastOp = "SocketError" => (error = ConnectionErrorMsg /\ error # NoError /\ ~isListening)

\* A socket error arrived while capture was running.
C9_Witness ==
    lastOp = "SocketError" /\ isListeningRef /\ mediaRecorderRef # 0

\* C10: after a socket close event the session error is the connection-error
\* message and listening is false.
C10_CloseIsConnectionError ==
    lastOp = "SocketClose" => (error = ConnectionErrorMsg /\ ~isListening)

\* C11: there is no automatic reconnect or retry.  A socket is created, and
\* the session's socket replaced, only by a step of startRecording(), never by
\* a socket error or close, an inbound frame, a capture block or a playback
\* event; and each startRecording() asks for the microphone exactly once.
C11_NoAutomaticReconnect ==
    [][/\ (lastOp' # "StartRecording"
              => /\ Len(sockets') = Len(sockets)
                 /\ websocketRef' = websocketRef
                 /\ micPending' <= micPending)
       /\ (lastOp' = "StartRecording"
              => /\ Len(sockets') <= Len(sockets) + 1
                 /\ micPending' = micPending + 1)]_vars

\* The session's socket failed and closed while recording was on, chunks
\* played and blocks arrived, and no second socket exists.
C11_Witness ==
    /\ Len(sockets) = 1 /\ sockets[1].readyState = "CLOSED"
    /\ isListeningRef /\ nBlocks > 0 /\ lastOp = "CaptureBlock"
    /\ Len(received) > 0

IsFinalTranscript(f) == f.parsed /\ f.type = "transcript" /\ f.payload /\ f.final

IsAgentResponse(f) == f.parsed /\ f.type = "agent_response"

\* A final transcript was dispatched and no agent_response after the latest one.
AwaitingReply ==
    \E i \in 1..Len(dispatched) :
        /\ IsFinalTranscript(dispatched[i])
        /\ \A j \in (i + 1)..Len(dispatched) : ~IsAgentResponse(dispatched[j])

\* C12: processing is true exactly when, among the frames dispatched so far,
\* a transcript with is_final = true arrived and no agent_response arrived
\* after the latest such transcript; as every other event leaves the frames
\* dispatched as they were, no other event changes processing.
C12_ProcessingIffAwaitingReply == isProcessing <=> AwaitingReply

\* Processing is still true after a later non-final transcript and a
\* playback event.
C12_Witness ==
    /\ isProcessing
    /\ Len(dispatched) = 2
    /\ dispatched[2].type = "transcript" /\ ~dispatched[2].final
    /\ lastOp \in {"ResumeResolved", "PlaybackEnded"}

WellFormedTranscript(f) ==
    f.parsed /\ f.type = "transcript" /\ f.payload /\ f.text # Undefined

RECURSIVE LastTranscriptText(_)
LastTranscriptText(frames) ==
    IF frames = <<>> THEN ""
    ELSE IF WellFormedTranscript(frames[Len(frames)])
    THEN frames[Len(frames)].text
    ELSE LastTranscriptText(SubSeq(frames, 1, Len(frames) - 1))

\* C13: transcript is the text of the most recently dispatched well-formed
\* transcript frame, final or not (the empty string before the first), and
\* so is changed by nothing else.
C13_TranscriptIsLatestText == transcript = LastTranscriptText(dispatched)

\* C14: a frame that cannot be parsed, lacks the fields its type requires or
\* carries an unrecognised type is discarded: listening, processing,
\* transcript, error, the playback queue, the playing flag and the socket are
\* as they were before it.
C14_MalformedDiscarded ==
    [][lastOp' = "Malformed"
         => UNCHANGED <<isListening, isProcessing, transcript, error, audioQueue,
                        isPlaying, sockets, websocketRef>>]_vars

\* Socket s has been open: onopen sent the config on it.
Opened(s) == s # 0 /\ sockets[s].sent # <<>>

\* C15: when startRecording() completes with listening true, the session's
\* socket has reached the open state.
C15_OpenBeforeCapture ==
    lastOp = "MicGranted" /\ isListening => Opened(websocketRef)

\* C16: stopRecording() sets listening to false and volume to 0 and releases
\* the installed capture graph, and leaves the socket (not closed, not
\* replaced), the playback queue, the playing flag and the chunk in flight,
\* processing, transcript and error as they were.
C16_StopOnlyCapture ==
    [][lastOp' = "StopRecording"
         => /\ ~isListening' /\ ~isListeningRef' /\ volume' = 0
            /\ mediaRecorderRef # 0 => graphs'[mediaRecorderRef].stopped
            /\ UNCHANGED <<sockets, websocketRef, audioQueue, isPlaying, inflight,
                           isProcessing, transcript, error>>]_vars

\* stopRecording() ran while a chunk was playing, a reply was awaited and
\* the socket was open.
C16_Witness ==
    /\ lastOp = "StopRecording"
    /\ mediaRecorderRef # 0 /\ graphs[mediaRecorderRef].stopped
    /\ isPlaying /\ inflight # {} /\ isProcessing /\ transcript # ""
    /\ IsOpen(sockets, websocketRef)

\* C17: after stopRecording(), no audio_chunk is sent until startRecording()
\* is next called: a block delivered while stopRecording() is the latest of
\* the two calls sends nothing, on any socket.
C17_NoChunkAfterStop ==
    lastOp = "CaptureBlock" /\ stopLatch => SentFor(nBlocks) = {}

\* C18: when startRecording() fails, by a denied microphone or by a graph
\* construction that throws after the microphone was acquired, error is set,
\* listening and the installed capture graph are as before, and no stream
\* or input context acquired by that call is left open.
C18_FailedStartReleases ==
    [][lastOp' \in {"MicDenied", "GraphFails"}
         => /\ error' # NoError
            /\ isListening' = isListening
            /\ mediaRecorderRef' = mediaRecorderRef
            /\ \A g \in (Len(graphs) + 1)..Len(graphs') : graphs'[g].stopped
            /\ \A c \in (Len(contexts) + 1)..Len(contexts') :
                   contexts'[c].state = "closed"]_vars

\* The microphone streams whose tracks have not been stopped.
LiveStreams == {g \in 1..Len(graphs) : ~graphs[g].stopped}

OpenContexts(rate) ==
    {c \in 1..Len(contexts) :
        contexts[c].rate = rate /\ contexts[c].state # "closed"}

\* C19: at most one capture handle (live microphone stream, input context)
\* and at most one output-device handle are open.
C19_OneHandleEach ==
    /\ Cardinality(LiveStreams) <= 1
    /\ Cardinality(OpenContexts(CaptureRate)) <= 1
    /\ Cardinality(OpenContexts(PlaybackRate)) <= 1

\* C20: after unmount every socket the session created is closed or
\* closing, every microphone track is stopped and every audio context is
\* closed.
C20_UnmountReleasesAll ==
    ~mounted
      => /\ \A s \in SocketIds : sockets[s].readyState \in {"CLOSING", "CLOSED"}
         /\ LiveStreams = {}
         /\ \A c \in 1..Len(contexts) : contexts[c].state = "closed"

\* C21: every failure leaves an error string and a non-listening state:
\* whenever error is non-null, listening is false.
C21_ErrorImpliesNotListening == error # NoError => ~isListening

\* round(p / d), halves rounded up as Math.round does.
RoundDiv(p, d) == (2 * p + d) \div (2 * d)

RoundedSample(k) == RoundDiv(Clamp(k) * Int16Scale, SampleDen)

\* The signed 16-bit samples a little-endian byte sequence holds.
RECURSIVE Int16Samples(_)
Int16Samples(bytes) ==
    IF Len(bytes) < 2 THEN <<>>
    ELSE LET u == bytes[1] + 256 * bytes[2]
         IN  << IF u >= 32768 THEN u - 65536 ELSE u >>
             \o Int16Samples(SubSeq(bytes, 3, Len(bytes)))

\* C22: every 16-bit sample placed in an outbound chunk equals
\* round(clamp(x, -1, 1) * 32767) of the captured sample x, and so lies in
\* [-32767, 32767].
C22_QuantizeRounds ==
    \A si \in AudioChunks :
        LET m == SentMsg(si)
            out == Int16Samples(atob(m.payload))
        IN  /\ Len(out) = Len(m.input)
            /\ \A i \in 1..Len(out) :
                   /\ out[i] = RoundedSample(m.input[i])
                   /\ out[i] >= 0 - Int16Scale /\ out[i] <= Int16Scale

\* The sockets that are connecting or open.
LiveSockets == {s \in SocketIds : sockets[s].readyState \in {"CONNECTING", "OPEN"}}

\* C23: at most one socket created by the session is connecting or open, and
\* it is the one the connection handle references.
C23_SingleSocket ==
    /\ Cardinality(LiveSockets) <= 1
    /\ \A s \in LiveSockets : s = websocketRef

\* C24: every chunk is played through the one output context the playback
\* path created; the context a capture operation created is never the one
\* used for playback.
C24_PlaybackOwnsItsContext ==
    /\ \A e \in inflight : contexts[e.ctx].rate = PlaybackRate
    /\ \A e1, e2 \in inflight : e1.ctx = e2.ctx
    /\ Cardinality({c \in 1..Len(contexts) : contexts[c].rate = PlaybackRate}) <= 1

\* C25: the scheduler is idle only with an empty queue: whenever the playing
\* flag is false, the playback queue is empty.
C25_IdleOnlyWhenEmpty == ~isPlaying => audioQueue = <<>>

\* Chunk i was dequeued with a non-empty payload that failed to decode.
DecodeFailed(i) ==
    i \in finished /\ Truthy(received[i]) /\ ~Decodable(received[i])

\* The chunk after a failed one, when decodable, has started playing or is
\* awaiting the resume of the output context.
NextPlaysAfterFailure ==
    \A i \in ReceivedIds :
        (DecodeFailed(i) /\ i + 1 \in ReceivedIds /\ Decodable(received[i + 1]))
            => \/ (i + 1) \in Started
               \/ \E e \in inflight : e.id = i + 1 /\ e.phase = "Decoding"

\* C26: enqueue, dequeue-and-play, playback completion and decode failure
\* never modify listening, processing, transcript, error or the socket, and
\* after a decode failure the next queued chunk, if decodable, plays.
C26_PlaybackTouchesNoSession ==
    /\ [][lastOp' \in {"AudioResponse", "ResumeResolved", "PlaybackEnded"}
            => UNCHANGED <<isListening, isListeningRef, isProcessing, transcript,
                           error, sockets, websocketRef>>]_vars
    /\ []NextPlaysAfterFailure

\* A queued chunk failed to decode when the chunk before it completed, the
\* chunk after it is playing, and a reply is awaited.
C26_Witness ==
    /\ lastOp = "PlaybackEnded"
    /\ 1 \in Started /\ DecodeFailed(2) /\ 3 \in Started
    /\ \E e \in inflight : e.id = 3 /\ e.phase = "Playing"
    /\ isProcessing

\* The capture graphs whose callback receives blocks and passes its guard.
CapturingGraphs == {g \in 1..Len(graphs) : Delivers(g) /\ CallbackRuns(isListeningRef)}

\* C27: recovery after a socket failure.  When the one startRecording()
\* the user made after the failure forced listening off completes, and the
\* session is thereby recovered (error null, listening true, its socket
\* open), the graph that call installed is the only one whose blocks are
\* sent: no graph from before the failure is also capturing.
C27_RecoveredWithOneGraph ==
    [][(/\ lastOp' = "MicGranted"
        /\ ~isListening /\ micPending = 1
        /\ \E s \in SocketIds : sockets[s].readyState = "CLOSED"
        /\ error' = NoError /\ isListening' /\ IsOpen(sockets', websocketRef'))
          => \A g \in CapturingGraphs' : g = mediaRecorderRef']_vars

\* C28: the listening value shown to the UI equals the flag that gates the
\* capture callback.
C28_ListeningFlagsAgree == isListening = isListeningRef

\* C29: once the cleanup has run, a startRecording() that was awaiting the
\* microphone acquires no stream and no audio context, listening does not
\* become true, and no audio_chunk is sent.
C29_NoEffectAfterUnmount ==
    [][~mounted
         => /\ Len(graphs') = Len(graphs)
            /\ Len(contexts') = Len(contexts)
            /\ isListening' => isListening
            /\ isListeningRef' => isListeningRef
            /\ AudioChunks' = AudioChunks]_vars

\* C30: the error of a failed startRecording() stays visible until the next
\* startRecording() call: no step in between resets error to null.
C30_MicErrorStaysVisible ==
    [][error = MicErrorMsg /\ lastOp' # "StartRecording" => error' # NoError]_vars

====
